---- MODULE Spec2Model ----
(***************************************************************************)
(* Model of the IoT-Mastra-Template core:                                  *)
(*   - the scheduled-task coordinator of workflows/scheduled-monitoring    *)
(*     (cron ticks, the runningTasks overlap guard, the deferred callback  *)
(*     racing the workflow against a two-minute timeout);                  *)
(*   - the subscription registry and inbound router of mqtt-subscribe.ts   *)
(*     (subscribe / unsubscribe / pause / resume / handleMessage).         *)
(*   - the voice responses of iot-voice-response.ts (the shouldRespond     *)
(*     rate limiter, the per-device generation lock, the history).         *)
(***************************************************************************)
EXTENDS Integers, Sequences, FiniteSets, TLC

VARIABLES
    scheduledTasks,   \* let scheduledTasks: cron.ScheduledTask[]  (task names, in push order)
    isInitialized,    \* let isInitialized = false
    runningTasks,     \* const runningTasks = new Set<string>()
    executions,       \* one record per execution unit created by a tick (closure + promises)
    lastTick,         \* console output of the last tick handler: started or "already running, skipping"
    subscriptions,    \* const subscriptions = new Map<string, Subscription>()
    listeners,        \* client.listenerCount('message')
    calls,            \* subscribe calls whose promise is still pending (closure state)
    routed,           \* console output of the last handleMessage call, per subscription
    toolResult,       \* the value the last settled mqtt-subscribe tool call returned
    now,              \* Date.now(), in minutes
    voiceHistory,     \* const voiceHistory: Map<string, VoiceResponse[]>
    generationLocks,  \* const generationLocks: Map<string, boolean>  (the keys set to true)
    generations,      \* generateVoiceResponse calls suspended at an await, per device
    published,        \* voice payloads handed to mqttClient.publish, in order
    voiceResult,      \* the value the last finished call of the voice tool returned
    decision          \* the value of the last shouldRespond evaluation

schedVars == <<scheduledTasks, isInitialized, runningTasks, executions, lastTick>>
routerVars == <<subscriptions, listeners, calls, routed, toolResult>>
voiceVars == <<now, voiceHistory, generationLocks, generations, published,
               voiceResult, decision>>
vars == <<scheduledTasks, isInitialized, runningTasks, executions, lastTick,
          subscriptions, listeners, calls, routed, toolResult,
          now, voiceHistory, generationLocks, generations, published,
          voiceResult, decision>>

(***************************************************************************)
(* Bounds                                                                  *)
(***************************************************************************)
\* executions created in one behaviour (ticks that pass the overlap guard)
MaxExecs == 2
\* subscribe calls pending at the same time
MaxCalls == 1
\* subscribe calls pending at the same time where the calls overlap
MaxOverlap == 2
\* segments of a subscription pattern and of an inbound topic in the matcher check
MaxPatternLen == 3
MaxTopicLen == 3
\* the clock runs from 0 to MaxMinutes
MaxMinutes == 31
\* voice generations started in one behaviour
MaxGenerations == 2

(***************************************************************************)
(* Scheduled-task coordinator                                              *)
(***************************************************************************)
\* the four cron jobs, in the order initializeScheduledMonitoring pushes them
TaskNames == <<"Routine Monitoring", "Connectivity Check",
               "Data Quality Check", "Daily Summary">>

TaskNameSet == {TaskNames[k] : k \in 1..Len(TaskNames)}

NoTick == [taskName |-> "none", result |-> "none"]

\* the closure handed to setTimeout(..., 0): nothing of the body has run yet
NewExecution(taskName) ==
    [taskName |-> taskName, pc |-> "deferred", body |-> "none",
     outcome |-> "none", escaped |-> FALSE]

Registered(taskName) ==
    \E k \in 1..Len(scheduledTasks) : scheduledTasks[k] = taskName

\* faulty variant: the overlap guard never skips
AlreadyRunning_Never(taskName) == FALSE

\* if (runningTasks.has(taskName)) { ...skipping...; return; }
AlreadyRunning(taskName) == taskName \in runningTasks

\* faulty variant: the timeout path leaves the mark in place
Finally_NotOnTimeout(taskName, outcome) ==
    IF outcome = "timeout" THEN runningTasks ELSE runningTasks \ {taskName}

\* faulty variant: the cleanup empties the whole set
Finally_ClearAll(taskName, outcome) == {}

\* finally { runningTasks.delete(taskName); }  -- runs on every exit path
Finally(taskName, outcome) == runningTasks \ {taskName}

\* faulty variant: no catch clause, a failure leaves the async callback rejected
Escapes_NoCatch(outcome) == outcome \in {"error", "timeout"}

\* try { ... } catch (error) { ...log... }  -- the catch clause handles every error
Escapes(outcome) == FALSE

\* the unit ends: catch/log, then finally
Finish(i, body, outcome) ==
    /\ executions' = [executions EXCEPT ![i] =
           [@ EXCEPT !.pc = "finished", !.body = body, !.outcome = outcome,
                     !.escaped = Escapes(outcome)]]
    /\ runningTasks' = Finally(executions[i].taskName, outcome)

\* faulty variant: the tick runs the body itself and marks nothing
StartExecution_Inline(taskName) ==
    /\ Len(executions) < MaxExecs
    /\ runningTasks' = runningTasks
    /\ executions' = Append(executions,
           [NewExecution(taskName) EXCEPT !.pc = "awaiting", !.body = "running"])

\* runningTasks.add(taskName); setTimeout(async () => {...}, 0);
StartExecution(taskName) ==
    /\ Len(executions) < MaxExecs
    /\ runningTasks' = runningTasks \cup {taskName}
    /\ executions' = Append(executions, NewExecution(taskName))

\* a cron tick of a registered task: the callback calls executeWorkflowNonBlocking
ScheduledTick(taskName) ==
    /\ Registered(taskName)
    /\ IF AlreadyRunning(taskName)
         THEN /\ lastTick' = [taskName |-> taskName, result |-> "skipped"]
              /\ UNCHANGED <<runningTasks, executions>>
         ELSE /\ StartExecution(taskName)
              /\ lastTick' = [taskName |-> taskName, result |-> "started"]
    /\ UNCHANGED <<scheduledTasks, isInitialized>>
    /\ UNCHANGED <<routerVars, voiceVars>>

\* the setTimeout(0) callback runs up to its first await (or to its end)
DeferredCallback(i, wf) ==
    /\ i \in 1..Len(executions)
    /\ executions[i].pc = "deferred"
    /\ CASE wf = "notfound" -> Finish(i, "none", "notfound")
         [] wf = "throws"   -> Finish(i, "none", "error")
         [] OTHER           ->
              /\ executions' = [executions EXCEPT ![i] =
                     [@ EXCEPT !.pc = "awaiting", !.body = "running"]]
              /\ UNCHANGED runningTasks
    /\ UNCHANGED <<scheduledTasks, isInitialized, lastTick>>
    /\ UNCHANGED <<routerVars, voiceVars>>

\* faulty variant: the settled body ends its unit again, whether or not it still awaits
WorkflowSettles_NoRace(i, how) ==
    /\ i \in 1..Len(executions)
    /\ executions[i].body = "running"
    /\ executions' = [executions EXCEPT ![i] =
           [@ EXCEPT !.pc = "finished", !.body = how,
                     !.outcome = IF how = "resolved" THEN "success" ELSE "error"]]
    /\ runningTasks' = Finally(executions[i].taskName, "late")
    /\ UNCHANGED <<scheduledTasks, isInitialized, lastTick>>
    /\ UNCHANGED <<routerVars, voiceVars>>

\* workflow.execute(...) settles; the race is won only if the unit still awaits it
WorkflowSettles(i, how) ==
    /\ i \in 1..Len(executions)
    /\ executions[i].body = "running"
    /\ IF executions[i].pc = "awaiting"
         THEN Finish(i, how, IF how = "resolved" THEN "success" ELSE "error")
         ELSE /\ executions' = [executions EXCEPT ![i] = [@ EXCEPT !.body = how]]
              /\ UNCHANGED runningTasks
    /\ UNCHANGED <<scheduledTasks, isInitialized, lastTick>>
    /\ UNCHANGED <<routerVars, voiceVars>>

\* the two-minute timer rejects timeoutPromise while the race is undecided
TimeoutFires(i) ==
    /\ i \in 1..Len(executions)
    /\ executions[i].pc = "awaiting"
    /\ Finish(i, executions[i].body, "timeout")
    /\ UNCHANGED <<scheduledTasks, isInitialized, lastTick>>
    /\ UNCHANGED <<routerVars, voiceVars>>

\* faulty variant: stop leaves the tasks registered
stopScheduledMonitoring_Keep ==
    /\ Len(scheduledTasks) > 0
    /\ isInitialized' = FALSE
    /\ UNCHANGED <<scheduledTasks, runningTasks, executions, lastTick>>
    /\ UNCHANGED <<routerVars, voiceVars>>

stopScheduledMonitoring ==
    /\ Len(scheduledTasks) > 0
    /\ scheduledTasks' = <<>>
    /\ isInitialized' = FALSE
    /\ UNCHANGED <<runningTasks, executions, lastTick>>
    /\ UNCHANGED <<routerVars, voiceVars>>

\* faulty variant: no isInitialized test and no stop before the four pushes
initializeScheduledMonitoring_NoGuard(enabled) ==
    /\ IF enabled
         THEN /\ scheduledTasks' = scheduledTasks \o TaskNames
              /\ isInitialized' = TRUE
         ELSE UNCHANGED <<scheduledTasks, isInitialized>>
    /\ UNCHANGED <<runningTasks, executions, lastTick>>
    /\ UNCHANGED <<routerVars, voiceVars>>

\* enabled: process.env.ENABLE_SCHEDULING === "true"
initializeScheduledMonitoring(enabled) ==
    /\ IF enabled /\ ~isInitialized
         THEN \* stopScheduledMonitoring() empties the array, then four pushes
              /\ scheduledTasks' = <<>> \o TaskNames
              /\ isInitialized' = TRUE
         ELSE UNCHANGED <<scheduledTasks, isInitialized>>
    /\ UNCHANGED <<runningTasks, executions, lastTick>>
    /\ UNCHANGED <<routerVars, voiceVars>>

InitSched ==
    /\ scheduledTasks = <<>>
    /\ isInitialized = FALSE
    /\ runningTasks = {}
    /\ executions = <<>>
    /\ lastTick = NoTick

(***************************************************************************)
(* Subscription registry and inbound router                                *)
(***************************************************************************)
\* A topic or pattern string is modelled by its '/'-separated segments, i.e. by the
\* value of str.split('/'); two strings are equal iff their segment sequences are.

\* JavaScript values: <<typeof, printed value>>, compared with === as tuples
Str(v) == <<"string", v>>
Num(v) == <<"number", v>>
Undefined == <<"undefined", "">>

\* filter?: Record<string, any>  -- absent, or a (possibly empty) keyed object
NoFilter == [present |-> FALSE, fields |-> <<>>]
Filter(fields) == [present |-> TRUE, fields |-> fields]

\* raw inbound payloads (Buffer contents), by what JSON.parse makes of them
Raw(kind) == [kind |-> kind, fields |-> <<>>]
RawObject(fields) == [kind |-> "object", fields |-> fields]
NoMessage == Raw("none")

\* try { JSON.parse(message.toString()) } catch { message.toString() }
JSONParse(message) ==
    CASE message.kind = "object" -> [type |-> "object", isNull |-> FALSE, fields |-> message.fields]
      [] message.kind = "array"  -> [type |-> "object", isNull |-> FALSE, fields |-> <<>>]
      [] message.kind = "null"   -> [type |-> "object", isNull |-> TRUE, fields |-> <<>>]
      [] message.kind = "number" -> [type |-> "number", isNull |-> FALSE, fields |-> <<>>]
      [] message.kind = "bool"   -> [type |-> "boolean", isNull |-> FALSE, fields |-> <<>>]
      [] OTHER                   -> [type |-> "string", isNull |-> FALSE, fields |-> <<>>]

\* parsedMessage[key]
Get(parsed, key) ==
    IF key \in DOMAIN parsed.fields THEN parsed.fields[key] ELSE Undefined

\* faulty variant: an existing key keeps its old value
MapSet_Keep(map, key, value) ==
    [p \in DOMAIN map \cup {key} |-> IF p \in DOMAIN map THEN map[p] ELSE value]

\* faulty variant: some instead of every
FilterMatches_Some(filter, parsed) ==
    \E key \in DOMAIN filter.fields : Get(parsed, key) = filter.fields[key]

\* Object.entries(subscription.filter).every(([key, value]) => parsedMessage[key] === value)
FilterMatches(filter, parsed) ==
    \A key \in DOMAIN filter.fields : Get(parsed, key) = filter.fields[key]

RECURSIVE MatchFrom(_, _, _)
\* the for loop of topicMatches from index i (1-based)
MatchFrom(actualParts, subParts, i) ==
    IF i > Len(subParts) THEN Len(actualParts) = Len(subParts)
    ELSE IF subParts[i] = "#" THEN TRUE
    ELSE IF subParts[i] = "+" THEN MatchFrom(actualParts, subParts, i + 1)
    ELSE IF i > Len(actualParts) \/ subParts[i] # actualParts[i] THEN FALSE
    ELSE MatchFrom(actualParts, subParts, i + 1)

\* faulty variant: a pattern also matches every topic it is a prefix of
topicMatches_Prefix(actualTopic, subscriptionTopic) ==
    \/ MatchFrom(actualTopic, subscriptionTopic, 1)
    \/ /\ Len(actualTopic) > Len(subscriptionTopic)
       /\ MatchFrom(SubSeq(actualTopic, 1, Len(subscriptionTopic)), subscriptionTopic, 1)

\* faulty variant: '#' stands for at most one segment
topicMatches_OneLevel(actualTopic, subscriptionTopic) ==
    /\ MatchFrom(actualTopic, subscriptionTopic, 1)
    /\ Len(actualTopic) <= Len(subscriptionTopic)

topicMatches(actualTopic, subscriptionTopic) == MatchFrom(actualTopic, subscriptionTopic, 1)

\* faulty variant: the paused flag is not consulted
Paused_Ignored(subscription) == FALSE

\* if (subscription.paused) return;
Paused(subscription) == subscription.paused

\* the forEach callback of handleMessage for one matching subscription: what it logs
RouteOne(subscription, message) ==
    IF Paused(subscription) THEN "paused"
    ELSE LET parsed == JSONParse(message) IN
         IF subscription.filter.present /\ parsed.type = "object"
         THEN IF parsed.isNull /\ DOMAIN subscription.filter.fields # {}
              THEN "error"       \* null[key] throws a TypeError, caught and logged
              ELSE IF FilterMatches(subscription.filter, parsed)
                   THEN "received" ELSE "filtered"
         ELSE "received"

NoRoute == [topic |-> <<>>, message |-> NoMessage, events |-> <<>>]

\* faulty variant: the loop over the matching subscriptions stops at the first one
\* that is paused, filtered out or fails
handleMessage_EarlyExit(topic, message) ==
    /\ listeners > 0
    /\ LET matching == {p \in DOMAIN subscriptions : topicMatches(topic, p)}
           stopped == \E p \in matching : RouteOne(subscriptions[p], message) # "received"
       IN  routed' = [topic |-> topic, message |-> message,
                      events |-> [p \in DOMAIN subscriptions |->
                          IF ~topicMatches(topic, p) THEN "nomatch"
                          ELSE IF stopped /\ RouteOne(subscriptions[p], message) = "received"
                               THEN "skipped"
                          ELSE RouteOne(subscriptions[p], message)]]
    /\ UNCHANGED <<subscriptions, listeners, calls, toolResult>>
    /\ UNCHANGED <<schedVars, voiceVars>>

\* client.on('message', handleMessage): runs for every inbound message once attached
handleMessage(topic, message) ==
    /\ listeners > 0
    /\ routed' = [topic |-> topic, message |-> message,
                  events |-> [p \in DOMAIN subscriptions |->
                      IF topicMatches(topic, p)
                      THEN RouteOne(subscriptions[p], message) ELSE "nomatch"]]
    /\ UNCHANGED <<subscriptions, listeners, calls, toolResult>>
    /\ UNCHANGED <<schedVars, voiceVars>>

\* subscriptions.set(topicStr, {...})
MapSet(map, key, value) ==
    [p \in DOMAIN map \cup {key} |-> IF p = key THEN value ELSE map[p]]

\* faulty variant: the entry stays
MapDelete_None(map, key) == map

\* subscriptions.delete(topic)
MapDelete(map, key) == [p \in DOMAIN map \ {key} |-> map[p]]

RemoveAt(seq, c) == [n \in 1..(Len(seq) - 1) |-> IF n < c THEN seq[n] ELSE seq[n + 1]]

\* subscriptions.size
MapSize(map) == Cardinality(DOMAIN map)

\* subscriptions.get(topic) is not undefined
MapHas(map, key) == key \in DOMAIN map

\* what execute returns: { success, status, details? }, and how the promise settled
Result(action, topic, success, status) ==
    [action |-> action, topic |-> topic, promise |-> "resolved",
     success |-> success, status |-> status, details |-> FALSE,
     subscribed |-> <<>>, failed |-> <<>>, count |-> 0]

NoResult == Result("none", <<>>, FALSE, "none")

\* faulty variant: an error acknowledgment rejects the promise
SubscribeResult_Throws(call, size) ==
    [Result("subscribe", <<>>, Len(call.subscribed) > 0, "Subscribed")
        EXCEPT !.promise = IF Len(call.failed) > 0 THEN "rejected" ELSE "resolved",
               !.details = TRUE, !.subscribed = call.subscribed,
               !.count = size]

\* resolve({ success: subscribed.length > 0, status, details: { subscribed, failed, total_subscriptions } })
SubscribeResult(call, size) ==
    [Result("subscribe", <<>>, Len(call.subscribed) > 0, "Subscribed")
        EXCEPT !.details = TRUE, !.subscribed = call.subscribed,
               !.failed = call.failed, !.count = size]

\* the callback of client.unsubscribe: resolve({ success, status, details? })
UnsubscribeResult(topic, err, size) ==
    IF err THEN Result("unsubscribe", topic, FALSE, "Failed to unsubscribe")
    ELSE [Result("unsubscribe", topic, TRUE, "Unsubscribed")
             EXCEPT !.details = TRUE, !.count = size]

\* faulty variant: pause and resume of an unknown topic report success
PauseResult_Always(action, topic, found) ==
    Result(action, topic, TRUE, IF action = "pause" THEN "Paused" ELSE "Resumed")

\* the return values of 'pause' and 'resume'
PauseResult(action, topic, found) ==
    IF ~found THEN Result(action, topic, FALSE, "Subscription not found")
    ELSE Result(action, topic, TRUE, IF action = "pause" THEN "Paused" ELSE "Resumed")

\* faulty variant: the handler is attached at the end of every subscribe call
Attach_Always(listenerCount) == listenerCount + 1

\* if (!client.listenerCount('message')) client.on('message', handleMessage)
Attach(listenerCount) == IF listenerCount = 0 THEN 1 ELSE listenerCount

\* action 'subscribe': client.subscribe is issued for every topic, the promise pends
Subscribe(topics, qos, filter) ==
    /\ calls' = Append(calls,
           [topics |-> topics, qos |-> qos, filter |-> filter,
            remaining |-> Len(topics), unacked |-> 1..Len(topics),
            subscribed |-> <<>>, failed |-> <<>>])
    /\ UNCHANGED <<subscriptions, listeners, routed, toolResult>>
    /\ UNCHANGED <<schedVars, voiceVars>>

\* the callback of client.subscribe for the k-th topic of pending call c
SubscribeAck(c, k, err) ==
    /\ c \in 1..Len(calls)
    /\ k \in calls[c].unacked
    /\ LET call == calls[c]
           topicStr == call.topics[k]
           acked == [call EXCEPT
                       !.remaining = @ - 1,
                       !.unacked = @ \ {k},
                       !.subscribed = IF err THEN @ ELSE Append(@, topicStr),
                       !.failed = IF err THEN Append(@, topicStr) ELSE @]
       IN /\ subscriptions' =
                 IF err THEN subscriptions
                 ELSE MapSet(subscriptions, topicStr,
                          [topic |-> topicStr, qos |-> call.qos,
                           filter |-> call.filter, paused |-> FALSE])
          /\ IF acked.remaining = 0
               THEN /\ listeners' = Attach(listeners)
                    /\ calls' = RemoveAt(calls, c)
                    /\ toolResult' = SubscribeResult(acked, MapSize(subscriptions'))
               ELSE /\ calls' = [calls EXCEPT ![c] = acked]
                    /\ UNCHANGED <<listeners, toolResult>>
    /\ UNCHANGED routed
    /\ UNCHANGED <<schedVars, voiceVars>>

\* action 'unsubscribe', at the callback of client.unsubscribe
Unsubscribe(topic, err) ==
    /\ subscriptions' = IF err THEN subscriptions ELSE MapDelete(subscriptions, topic)
    /\ toolResult' = UnsubscribeResult(topic, err, MapSize(subscriptions'))
    /\ UNCHANGED <<listeners, calls, routed>>
    /\ UNCHANGED <<schedVars, voiceVars>>

\* actions 'pause' and 'resume': 'Subscription not found' changes nothing
SetPaused(topic, paused) ==
    /\ subscriptions' =
          IF MapHas(subscriptions, topic)
          THEN [subscriptions EXCEPT ![topic] = [@ EXCEPT !.paused = paused]]
          ELSE subscriptions
    /\ toolResult' = PauseResult(IF paused THEN "pause" ELSE "resume", topic,
                                 MapHas(subscriptions, topic))
    /\ UNCHANGED <<listeners, calls, routed>>
    /\ UNCHANGED <<schedVars, voiceVars>>

Pause(topic) == SetPaused(topic, TRUE)

Resume(topic) == SetPaused(topic, FALSE)

\* action 'list_subscriptions'
ListSubscriptions ==
    {[topic |-> p, qos |-> subscriptions[p].qos, paused |-> subscriptions[p].paused,
      has_filter |-> subscriptions[p].filter.present] : p \in DOMAIN subscriptions}

\* the return value of 'list_subscriptions'
ListResult ==
    [Result("list_subscriptions", <<>>, TRUE, "active subscription(s)")
        EXCEPT !.details = TRUE, !.count = Cardinality(ListSubscriptions)]

List ==
    /\ toolResult' = ListResult
    /\ UNCHANGED <<subscriptions, listeners, calls, routed>>
    /\ UNCHANGED <<schedVars, voiceVars>>

\* faulty variant: only a missing client is refused
ClientGuard_AbsentOnly(client) == client = "absent"

\* if (!client || !client.connected)   -- client is what getMqttClient() returned
ClientGuard(client) == client # "connected"

\* execute: the connection test, then the switch over the action
Execute(action, client, topic, err) ==
    IF ClientGuard(client)
    THEN /\ toolResult' = Result(action, topic, FALSE, "MQTT client not connected")
         /\ UNCHANGED <<subscriptions, listeners, calls, routed>>
         /\ UNCHANGED <<schedVars, voiceVars>>
    ELSE CASE action = "subscribe"          -> Subscribe(<<topic>>, 1, NoFilter)
           [] action = "unsubscribe"        -> Unsubscribe(topic, err)
           [] action = "list_subscriptions" -> List
           [] action = "pause"              -> Pause(topic)
           [] action = "resume"             -> Resume(topic)

InitRouter ==
    /\ subscriptions = <<>>
    /\ listeners = 0
    /\ calls = <<>>
    /\ routed = NoRoute
    /\ toolResult = NoResult

(***************************************************************************)
(* Voice responses: rate limiter, per-device lock, history                 *)
(***************************************************************************)
\* if (severity === "warning" && minutesSinceLastResponse < 15) return false;
WarningGapMinutes == 15

\* if (severity === "normal" && minutesSinceLastResponse < 30) return false;
NormalGapMinutes == 30

\* if (history.length > 10) voiceHistory.set(deviceId, history.slice(-10));
HistoryLimit == 10

\* conditions.<key> !== undefined
Has(conditions, key) == key \in DOMAIN conditions

\* if (maxSeverity === ...) maxSeverity = to
Raise(maxSeverity, from, to) == IF maxSeverity \in from THEN to ELSE maxSeverity

\* analyzeConditions(conditions).severity
analyzeConditions(conditions) ==
    LET afterTemperature ==
            IF ~Has(conditions, "temperature") THEN "normal"
            ELSE IF conditions.temperature > 40 THEN "emergency"
            ELSE IF conditions.temperature > 35 THEN "critical"
            ELSE IF conditions.temperature > 30 THEN "warning"
            ELSE IF conditions.temperature < 5 THEN "warning"
            ELSE "normal"
        afterHumidity ==
            IF ~Has(conditions, "humidity") THEN afterTemperature
            ELSE IF conditions.humidity > 90
                 THEN Raise(afterTemperature, {"normal", "warning"}, "critical")
            ELSE IF conditions.humidity < 20
                 THEN Raise(afterTemperature, {"normal"}, "warning")
            ELSE afterTemperature
        afterBattery ==
            IF ~Has(conditions, "battery") THEN afterHumidity
            ELSE IF conditions.battery < 10
                 THEN Raise(afterHumidity, {"normal", "warning"}, "critical")
            ELSE IF conditions.battery < 20
                 THEN Raise(afterHumidity, {"normal"}, "warning")
            ELSE afterHumidity
    IN  IF Has(conditions, "signal_strength") /\ conditions.signal_strength < -90
        THEN Raise(afterBattery, {"normal"}, "warning")
        ELSE afterBattery

\* faulty variant: the gap has to be exceeded, not reached
shouldRespond_Exceeded(deviceId, severity) ==
    IF ~MapHas(voiceHistory, deviceId) THEN TRUE
    ELSE IF Len(voiceHistory[deviceId]) = 0 THEN TRUE
    ELSE LET history == voiceHistory[deviceId]
             minutesSinceLastResponse == now - history[Len(history)].timestamp
         IN  IF severity \in {"emergency", "critical"} THEN TRUE
             ELSE IF severity = "warning" /\ minutesSinceLastResponse <= WarningGapMinutes
                  THEN FALSE
             ELSE IF severity = "normal" /\ minutesSinceLastResponse <= NormalGapMinutes
                  THEN FALSE
             ELSE TRUE

\* function shouldRespond(deviceId, severity): boolean
shouldRespond(deviceId, severity) ==
    IF ~MapHas(voiceHistory, deviceId) THEN TRUE
    ELSE IF Len(voiceHistory[deviceId]) = 0 THEN TRUE
    ELSE LET history == voiceHistory[deviceId]
             lastResponse == history[Len(history)]
             minutesSinceLastResponse == now - lastResponse.timestamp
         IN  IF severity \in {"emergency", "critical"} THEN TRUE
             ELSE IF severity = "warning" /\ minutesSinceLastResponse < WarningGapMinutes
                  THEN FALSE
             ELSE IF severity = "normal" /\ minutesSinceLastResponse < NormalGapMinutes
                  THEN FALSE
             ELSE TRUE

\* the VoiceResponse object: device_id, severity, timestamp (text and audio left out)
VoiceResponse(deviceId, severity, timestamp) ==
    [device_id |-> deviceId, severity |-> severity, timestamp |-> timestamp]

\* history.slice(-10)
LastN(history, n) ==
    IF Len(history) > n THEN SubSeq(history, Len(history) - n + 1, Len(history))
    ELSE history

\* function storeVoiceResponse(deviceId, response)
storeVoiceResponse(map, deviceId, response) ==
    LET history == IF MapHas(map, deviceId) THEN map[deviceId] ELSE <<>>
    IN  MapSet(map, deviceId, LastN(Append(history, response), HistoryLimit))

VoiceResult(deviceId, success, message, respond) ==
    [device_id |-> deviceId, success |-> success, message |-> message,
     should_respond |-> respond]

NoVoiceResult == VoiceResult("none", FALSE, "none", FALSE)

NoDecision == [deviceId |-> "none", severity |-> "none", allowed |-> FALSE]

RECURSIVE StoredIn(_, _)
\* responses stored for the devices of S
StoredIn(map, S) ==
    IF S = {} THEN 0
    ELSE LET d == CHOOSE x \in S : TRUE
         IN  Len(map[d]) + StoredIn(map, S \ {d})

\* generations started so far: stored, or still suspended before the store
Started ==
    StoredIn(voiceHistory, DOMAIN voiceHistory)
      + Cardinality({d \in DOMAIN generations : generations[d].pc # "publish"})

\* generateVoiceResponse up to its first await: the lock check, the lock, the analysis
\* (the shouldRespond check that followed the analysis is commented out)
GenerateStart(deviceId, conditions, forceResponse) ==
    /\ IF deviceId \in generationLocks
         THEN /\ voiceResult' = VoiceResult(deviceId, FALSE, "in progress", FALSE)
              /\ UNCHANGED <<generationLocks, generations>>
         ELSE /\ Started < MaxGenerations
              /\ generationLocks' = generationLocks \cup {deviceId}
              /\ generations' = MapSet(generations, deviceId,
                     [pc |-> "llm", severity |-> analyzeConditions(conditions),
                      forceResponse |-> forceResponse])
              /\ UNCHANGED voiceResult
    /\ UNCHANGED <<now, voiceHistory, published, decision>>
    /\ UNCHANGED <<schedVars, routerVars>>

\* await generateLLMMessage(...): resolves with the text or the fallback text
LLMSettles(deviceId) ==
    /\ MapHas(generations, deviceId) /\ generations[deviceId].pc = "llm"
    /\ generations' = [generations EXCEPT ![deviceId].pc = "tts"]
    /\ UNCHANGED <<now, voiceHistory, generationLocks, published, voiceResult, decision>>
    /\ UNCHANGED <<schedVars, routerVars>>

\* faulty variant: the lock is released after the return statement only
Release_NotOnThrow(deviceId, exit) ==
    IF exit = "thrown" THEN generationLocks ELSE generationLocks \ {deviceId}

\* finally { generationLocks.delete(deviceId) }  -- runs on every exit of the try block
Release(deviceId, exit) == generationLocks \ {deviceId}

\* return { success: true, ... } finally { generationLocks.delete(deviceId) }
Return(deviceId) ==
    /\ generations' = MapDelete(generations, deviceId)
    /\ generationLocks' = Release(deviceId, "returned")
    /\ voiceResult' = VoiceResult(deviceId, TRUE, "generated", TRUE)

\* an await inside the try block rejects: the finally block runs, the error reaches
\* the catch clause of execute, which returns 'Voice response operation failed: ...'
GenerationThrows(deviceId) ==
    /\ MapHas(generations, deviceId)
    /\ generations' = MapDelete(generations, deviceId)
    /\ generationLocks' = Release(deviceId, "thrown")
    /\ voiceResult' = VoiceResult(deviceId, FALSE, "operation failed", FALSE)
    /\ UNCHANGED <<now, voiceHistory, published, decision>>
    /\ UNCHANGED <<schedVars, routerVars>>

\* await generateTTSAudio(...) resolves; the response is stamped, stored and handed to
\* publishVoiceToMQTT, which returns at once when the client is not connected
TTSSettles(deviceId, connected) ==
    /\ MapHas(generations, deviceId) /\ generations[deviceId].pc = "tts"
    /\ LET voiceResponse == VoiceResponse(deviceId, generations[deviceId].severity, now)
       IN  /\ voiceHistory' = storeVoiceResponse(voiceHistory, deviceId, voiceResponse)
           /\ IF connected
                THEN /\ published' = Append(published, voiceResponse)
                     /\ generations' = [generations EXCEPT ![deviceId].pc = "publish"]
                     /\ UNCHANGED <<generationLocks, voiceResult>>
                ELSE /\ Return(deviceId)
                     /\ UNCHANGED published
    /\ UNCHANGED <<now, decision>>
    /\ UNCHANGED <<schedVars, routerVars>>

\* the callback of mqttClient.publish: either way the promise resolves
PublishSettles(deviceId, error) ==
    /\ MapHas(generations, deviceId) /\ generations[deviceId].pc = "publish"
    /\ Return(deviceId)
    /\ UNCHANGED <<now, voiceHistory, published, decision>>
    /\ UNCHANGED <<schedVars, routerVars>>

\* device_id left out of the tool call (undefined, or the empty string)
NoDevice == ""

\* action 'clear_history': function clearVoiceHistory(deviceId?)
clearVoiceHistory(deviceId) ==
    /\ voiceHistory' = IF deviceId # NoDevice THEN MapDelete(voiceHistory, deviceId)
                       ELSE <<>>
    /\ voiceResult' = VoiceResult(deviceId, TRUE, "cleared", FALSE)
    /\ UNCHANGED <<now, generationLocks, generations, published, decision>>
    /\ UNCHANGED <<schedVars, routerVars>>

\* time passes
Tick(minutes) ==
    /\ now + minutes <= MaxMinutes
    /\ now' = now + minutes
    /\ UNCHANGED <<voiceHistory, generationLocks, generations, published,
                   voiceResult, decision>>
    /\ UNCHANGED <<schedVars, routerVars>>

\* faulty variant: an allowed decision is recorded as an emission at once
Decide_Records(deviceId, severity) ==
    /\ decision' = [deviceId |-> deviceId, severity |-> severity,
                    allowed |-> shouldRespond(deviceId, severity)]
    /\ voiceHistory' = IF shouldRespond(deviceId, severity)
                       THEN storeVoiceResponse(voiceHistory, deviceId,
                                VoiceResponse(deviceId, severity, now))
                       ELSE voiceHistory
    /\ UNCHANGED <<now, generationLocks, generations, published, voiceResult>>
    /\ UNCHANGED <<schedVars, routerVars>>

\* an evaluation of shouldRespond(deviceId, severity)
Decide(deviceId, severity) ==
    /\ decision' = [deviceId |-> deviceId, severity |-> severity,
                    allowed |-> shouldRespond(deviceId, severity)]
    /\ UNCHANGED <<now, voiceHistory, generationLocks, generations, published,
                   voiceResult>>
    /\ UNCHANGED <<schedVars, routerVars>>

InitVoice ==
    /\ now = 0
    /\ voiceHistory = <<>>
    /\ generationLocks = {}
    /\ generations = <<>>
    /\ published = <<>>
    /\ voiceResult = NoVoiceResult
    /\ decision = NoDecision

Init == InitSched /\ InitRouter /\ InitVoice

\* the jobs whose cron expression comes due in the explored behaviours
TickedTasks == {TaskNames[1], TaskNames[2]}

NextSched ==
    \/ \E enabled \in BOOLEAN : initializeScheduledMonitoring(enabled)
    \/ stopScheduledMonitoring
    \/ \E taskName \in TickedTasks : ScheduledTick(taskName)
    \/ \E i \in 1..MaxExecs, wf \in {"notfound", "throws", "started"} : DeferredCallback(i, wf)
    \/ \E i \in 1..MaxExecs, how \in {"resolved", "rejected"} : WorkflowSettles(i, how)
    \/ \E i \in 1..MaxExecs : TimeoutFires(i)

SpecSched == Init /\ [][NextSched]_vars

\* timers are run by the event loop: a due setTimeout callback is eventually called
SpecSchedFair ==
    /\ Init
    /\ [][NextSched]_vars
    /\ \A i \in 1..MaxExecs :
          /\ WF_vars(\E wf \in {"notfound", "throws", "started"} : DeferredCallback(i, wf))
          /\ WF_vars(TimeoutFires(i))

(***************************************************************************)
(* Registry and router: inputs and specifications                          *)
(***************************************************************************)
\* sensors/+/temperature
TempPattern == <<"sensors", "+", "temperature">>

\* sensors/#
AllPattern == <<"sensors", "#">>

RouterPatterns == {TempPattern, AllPattern}

\* sensors/7/temperature and sensors/7/humidity
RouterTopics == {<<"sensors", "7", "temperature">>, <<"sensors", "7", "humidity">>}

LabFilter == Filter([location |-> Str("lab")])

LabReading == RawObject([location |-> Str("lab"), t |-> Num("21")])

OfficeReading == RawObject([location |-> Str("office"), t |-> Num("21")])

RouterFilters == {NoFilter, LabFilter}

RouterMessages == {LabReading, OfficeReading, Raw("text")}

\* qos: z.enum(['0', '1', '2']).optional().default('1') through parseInt
QosLevels == {1}

\* config.topics given as a single string: Array.isArray(...) ? ... : [config.topics]
TopicLists == {<<TempPattern>>, <<AllPattern>>}

NextRouter ==
    \/ \E topics \in TopicLists, qos \in QosLevels, filter \in RouterFilters :
          Len(calls) < MaxCalls /\ Subscribe(topics, qos, filter)
    \/ \E c \in 1..Len(calls) : \E k \in calls[c].unacked, err \in BOOLEAN :
          SubscribeAck(c, k, err)
    \/ \E topic \in RouterPatterns, err \in BOOLEAN : Unsubscribe(topic, err)
    \/ \E topic \in RouterPatterns : Pause(topic)
    \/ \E topic \in RouterPatterns : Resume(topic)
    \/ \E topic \in RouterTopics, message \in RouterMessages : handleMessage(topic, message)

SpecRouter == Init /\ [][NextRouter]_vars

\* Filter evaluation on its own: one subscription with any filter, any payload
FilterKeys == {"location", "t"}

FilterValues == {Str("lab"), Str("office"), Num("21")}

KeyedObjects == UNION {[K -> FilterValues] : K \in SUBSET FilterKeys}

AllFilters == {NoFilter} \cup {Filter(fields) : fields \in KeyedObjects}

UnkeyedKinds == {"text", "number", "string", "null", "bool", "array"}

AllMessages == {RawObject(fields) : fields \in KeyedObjects} \cup {Raw(kind) : kind \in UnkeyedKinds}

\* the registry after one acknowledged subscribe of TempPattern with the filter
InitFilter ==
    /\ InitSched
    /\ \E filter \in AllFilters :
          subscriptions = MapSet(<<>>, TempPattern,
              [topic |-> TempPattern, qos |-> 1, filter |-> filter, paused |-> FALSE])
    /\ listeners = 1
    /\ calls = <<>>
    /\ routed = NoRoute
    /\ toolResult = NoResult
    /\ InitVoice

NextFilter ==
    \E topic \in RouterTopics, message \in AllMessages : handleMessage(topic, message)

SpecFilter == InitFilter /\ [][NextFilter]_vars

\* The matcher on its own: one unfiltered subscription of any pattern, any topic
PatternSegments == {"a", "", "+", "#"}

TopicSegments == {"a", "A", ""}

\* the values of str.split('/'): at least one segment, possibly empty ones
Split(segments, maxLen) == UNION {[1..n -> segments] : n \in 1..maxLen}

MatchPatterns ==
    Split(PatternSegments, MaxPatternLen)
        \cup {<<"sensors", "+", "temp">>, <<"sensors", "#">>}

MatchTopics ==
    Split(TopicSegments, MaxTopicLen)
        \cup {<<"sensors", "42", "temp">>, <<"sensors", "42", "sub", "temp">>,
              <<"sensors">>, <<"sensors", "a">>, <<"sensors", "a", "b", "c">>,
              <<"devices", "a">>}

InitMatch ==
    /\ InitSched
    /\ \E pattern \in MatchPatterns :
          subscriptions = MapSet(<<>>, pattern,
              [topic |-> pattern, qos |-> 1, filter |-> NoFilter, paused |-> FALSE])
    /\ listeners = 1
    /\ calls = <<>>
    /\ routed = NoRoute
    /\ toolResult = NoResult
    /\ InitVoice

NextMatch == \E topic \in MatchTopics : handleMessage(topic, Raw("text"))

SpecMatch == InitMatch /\ [][NextMatch]_vars

\* The rate limiter on its own: any time of day, any last response, any severity
Devices == {"d1", "d2"}

Severities == {"normal", "warning", "critical", "emergency"}

\* device d1 has responded before: once, or twice with the first response at 0
LimiterHistories(t) ==
    {<<VoiceResponse("d1", severity, last)>> :
         severity \in {"normal", "critical"}, last \in 0..t}
      \cup {<<VoiceResponse("d1", "normal", 0), VoiceResponse("d1", "warning", last)>> :
               last \in 0..t}

InitLimiter ==
    /\ InitSched
    /\ InitRouter
    /\ now \in 0..MaxMinutes
    /\ \/ voiceHistory = <<>>
       \/ \E history \in LimiterHistories(now) : voiceHistory = MapSet(<<>>, "d1", history)
    /\ generationLocks = {}
    /\ generations = <<>>
    /\ published = <<>>
    /\ voiceResult = NoVoiceResult
    /\ decision = NoDecision

NextLimiter == \E deviceId \in Devices, severity \in Severities : Decide(deviceId, severity)

SpecLimiter == InitLimiter /\ [][NextLimiter]_vars

\* Voice generation: requests for two devices, the awaits settling in any order
\* a quiet reading, a warm one, and the reading testVoiceGeneration uses
ConditionSets ==
    {[temperature |-> 22, humidity |-> 50],
     [temperature |-> 32],
     [temperature |-> 38, humidity |-> 95, battery |-> 15, signal_strength |-> -85]}

TickMinutes == {10}

NextVoice ==
    \/ \E deviceId \in Devices, conditions \in ConditionSets, forceResponse \in BOOLEAN :
          GenerateStart(deviceId, conditions, forceResponse)
    \/ \E deviceId \in Devices : LLMSettles(deviceId)
    \/ \E deviceId \in Devices, connected \in BOOLEAN : TTSSettles(deviceId, connected)
    \/ \E deviceId \in Devices, error \in BOOLEAN : PublishSettles(deviceId, error)
    \/ \E minutes \in TickMinutes : Tick(minutes)

SpecVoice == Init /\ [][NextVoice]_vars

\* The per-device lock: requests for two devices, every await settling or rejecting
\* a warm reading and a hot one
LockConditions == {[temperature |-> 32], [temperature |-> 38]}

NextLock ==
    \/ \E deviceId \in Devices, conditions \in LockConditions :
          GenerateStart(deviceId, conditions, FALSE)
    \/ \E deviceId \in Devices : LLMSettles(deviceId)
    \/ \E deviceId \in Devices, connected \in BOOLEAN : TTSSettles(deviceId, connected)
    \/ \E deviceId \in Devices, error \in BOOLEAN : PublishSettles(deviceId, error)
    \/ \E deviceId \in Devices : GenerationThrows(deviceId)

SpecLock == Init /\ [][NextLock]_vars

\* Fan-out on its own: any registry over three patterns that overlap, any message
\* sensors/7/temperature
LiteralPattern == <<"sensors", "7", "temperature">>

FanoutPatterns == {TempPattern, AllPattern, LiteralPattern}

\* the registries subscribe, pause and resume can build over the patterns
FanoutRegistries ==
    UNION {{[p \in S |-> [topic |-> p, qos |-> 1, filter |-> f[p].filter,
                          paused |-> f[p].paused]] :
               f \in [S -> [filter : RouterFilters, paused : BOOLEAN]]} :
           S \in SUBSET FanoutPatterns}

FanoutTopics == RouterTopics \cup {<<"devices", "7">>}

FanoutMessages == {LabReading, OfficeReading, Raw("text"), Raw("null")}

InitFanout ==
    /\ InitSched
    /\ InitVoice
    /\ subscriptions \in FanoutRegistries
    /\ listeners = 1
    /\ calls = <<>>
    /\ routed = NoRoute
    /\ toolResult = NoResult

NextFanout ==
    \E topic \in FanoutTopics, message \in FanoutMessages : handleMessage(topic, message)

SpecFanout == InitFanout /\ [][NextFanout]_vars

\* Re-subscription on its own: one pattern subscribed again and again with other
\* delivery levels and filters, paused in between; no resume and no unsubscribe
ResubscribeQos == {0, 2}

ResubscribeMessages == {LabReading, OfficeReading}

NextResubscribe ==
    \/ \E qos \in ResubscribeQos, filter \in RouterFilters :
          Len(calls) < MaxCalls /\ Subscribe(<<TempPattern>>, qos, filter)
    \/ \E c \in 1..Len(calls) : \E k \in calls[c].unacked, err \in BOOLEAN :
          SubscribeAck(c, k, err)
    \/ Pause(TempPattern)
    \/ \E message \in ResubscribeMessages : handleMessage(LiteralPattern, message)

SpecResubscribe == Init /\ [][NextResubscribe]_vars

\* The limiter next to the operations on the history it reads: generations for one
\* device, each one published, clear_history, the clock
HistoryConditions == {[temperature |-> 22, humidity |-> 50], [temperature |-> 32]}

HistorySeverities == {"normal", "critical"}

NextHistory ==
    \/ \E conditions \in HistoryConditions :
          Len(published) < MaxGenerations /\ GenerateStart("d1", conditions, FALSE)
    \/ LLMSettles("d1")
    \/ TTSSettles("d1", TRUE)
    \/ \E error \in BOOLEAN : PublishSettles("d1", error)
    \/ \E minutes \in TickMinutes : Tick(minutes)
    \/ \E deviceId \in {"d1", NoDevice} : clearVoiceHistory(deviceId)
    \/ \E deviceId \in Devices, severity \in HistorySeverities : Decide(deviceId, severity)

SpecHistory == Init /\ [][NextHistory]_vars

\* The registry operations with malformed patterns, lists of several topics and a
\* list naming one topic twice
\* sensors/#/temperature
MidHashPattern == <<"sensors", "#", "temperature">>

RegistryPatterns == {TempPattern, MidHashPattern}

RegistryLists == {<<TempPattern>>, <<MidHashPattern>>, <<TempPattern, MidHashPattern>>,
                  <<TempPattern, TempPattern>>}

\* sensors/7/humidity
HumidityTopic == <<"sensors", "7", "humidity">>

NextRegistry ==
    \/ \E topics \in RegistryLists, qos \in QosLevels, filter \in RouterFilters :
          Len(calls) < MaxCalls /\ Subscribe(topics, qos, filter)
    \/ \E c \in 1..Len(calls) : \E k \in calls[c].unacked, err \in BOOLEAN :
          SubscribeAck(c, k, err)
    \/ \E topic \in RegistryPatterns, err \in BOOLEAN : Unsubscribe(topic, err)
    \/ \E topic \in RegistryPatterns : Pause(topic)
    \/ \E topic \in RegistryPatterns : Resume(topic)

SpecRegistry == Init /\ [][NextRegistry]_vars

\* Subscribe calls on their own, overlapping: the acknowledgments of several pending
\* calls arrive in any order
OverlapLists == {<<TempPattern>>, <<TempPattern, AllPattern>>}

NextAttach ==
    \/ \E topics \in OverlapLists :
          Len(calls) < MaxOverlap /\ Subscribe(topics, 1, NoFilter)
    \/ \E c \in 1..Len(calls) : \E k \in calls[c].unacked, err \in BOOLEAN :
          SubscribeAck(c, k, err)
    \/ handleMessage(HumidityTopic, Raw("text"))

SpecAttach == Init /\ [][NextAttach]_vars

\* Subscribe calls and the transport's answers: the broker answers every
\* client.subscribe it was sent, so a pending acknowledgment eventually arrives
\* config.topics: an empty array, one topic, one topic twice, two topics
SubscribeLists == {<<>>, <<TempPattern>>, <<TempPattern, TempPattern>>,
                   <<TempPattern, AllPattern>>}

SubscribeQos == {0, 1}

NextSubscribe ==
    \/ \E topics \in SubscribeLists, qos \in SubscribeQos :
          Len(calls) < MaxCalls /\ Subscribe(topics, qos, NoFilter)
    \/ \E c \in 1..Len(calls) : \E k \in calls[c].unacked, err \in BOOLEAN :
          SubscribeAck(c, k, err)
    \/ \E topic \in RouterPatterns, err \in BOOLEAN : Unsubscribe(topic, err)

SpecSubscribeFair ==
    /\ Init
    /\ [][NextSubscribe]_vars
    /\ WF_vars(\E c \in 1..Len(calls) : \E k \in calls[c].unacked, err \in BOOLEAN :
                  SubscribeAck(c, k, err))

\* The tool called while the client comes and goes: getMqttClient() returns no
\* client, a client that is not connected, or a connected one
Clients == {"absent", "disconnected", "connected"}

ToolActions == {"subscribe", "unsubscribe", "list_subscriptions", "pause", "resume"}

NextOffline ==
    \/ \E action \in ToolActions, client \in Clients, topic \in RouterPatterns,
          err \in BOOLEAN :
          /\ (action = "subscribe" /\ client = "connected") => Len(calls) < MaxCalls
          /\ Execute(action, client, topic, err)
    \/ \E c \in 1..Len(calls) : \E k \in calls[c].unacked, err \in BOOLEAN :
          SubscribeAck(c, k, err)

SpecOffline == Init /\ [][NextOffline]_vars

(***************************************************************************)
(* Router claims                                                           *)
(***************************************************************************)
Matching(topic) == {p \in DOMAIN subscriptions : topicMatches(topic, p)}

\* a step of handleMessage: the only action that writes the routing log
Routes == routed' # routed

\* C8: a message routed while a matching subscription is paused is dropped for it
\* (never logged as received); pausing keeps the entry, the count and the other
\* fields, and list_subscriptions reports paused = true; a matching message routed
\* to a subscription that is not paused (after resume) and has no filter is received.
C8_PausedDropsEverything ==
    /\ [][Routes =>
             \A p \in Matching(routed'.topic) :
                 /\ subscriptions[p].paused => routed'.events[p] = "paused"
                 /\ (~subscriptions[p].paused /\ ~subscriptions[p].filter.present)
                        => routed'.events[p] = "received"]_vars
    /\ [][\A p \in DOMAIN subscriptions : (~subscriptions[p].paused /\ Pause(p)) =>
             /\ DOMAIN subscriptions' = DOMAIN subscriptions
             /\ Cardinality(ListSubscriptions') = Cardinality(ListSubscriptions)
             /\ \E e \in ListSubscriptions' : e.topic = p /\ e.paused
             /\ subscriptions'[p] = [subscriptions[p] EXCEPT !.paused = TRUE]
             /\ \A q \in DOMAIN subscriptions \ {p} : subscriptions'[q] = subscriptions[q]]_vars
    /\ [][\A p \in DOMAIN subscriptions : (subscriptions[p].paused /\ Resume(p)) =>
             /\ ~subscriptions'[p].paused
             /\ \E e \in ListSubscriptions' : e.topic = p /\ ~e.paused]_vars

C8_Witness ==
    \E p, q \in DOMAIN routed.events :
        /\ p \in DOMAIN subscriptions /\ subscriptions[p].paused
        /\ routed.events[p] = "paused"
        /\ routed.events[q] = "received"

NonEmptyFilter(subscription) ==
    subscription.filter.present /\ DOMAIN subscription.filter.fields # {}

\* the payload contains every filter key with an equal value
PayloadSatisfies(filter, message) ==
    \A key \in DOMAIN filter.fields :
        key \in DOMAIN message.fields /\ message.fields[key] = filter.fields[key]

\* C9: for a non-paused subscription with a non-empty filter and a payload that is a
\* keyed object, a topic-matching message is received iff the payload contains every
\* filter key with an equal value; otherwise it is logged as filtered out.
C9_FilterIsConjunction ==
    [][Routes =>
          \A p \in Matching(routed'.topic) :
              (~subscriptions[p].paused /\ NonEmptyFilter(subscriptions[p])
                   /\ routed'.message.kind = "object") =>
                  /\ routed'.events[p] = "received"
                         <=> PayloadSatisfies(subscriptions[p].filter, routed'.message)
                  /\ routed'.events[p] \in {"received", "filtered"}]_vars

C9_Witness ==
    /\ routed.message = OfficeReading
    /\ TempPattern \in DOMAIN routed.events
    /\ routed.events[TempPattern] = "filtered"
    /\ subscriptions[TempPattern].filter = LabFilter

\* C10: with a non-empty filter, a topic-matching payload that is not a keyed object
\* (plain text, a JSON number or string, null) is never received by the subscription.
C10_FailClosed ==
    [][Routes =>
          \A p \in Matching(routed'.topic) :
              (NonEmptyFilter(subscriptions[p])
                   /\ routed'.message.kind \in {"text", "number", "string", "null"}) =>
                  routed'.events[p] # "received"]_vars

\* the subscription's own filter lets the payload through
Passes(subscription, message) ==
    \/ ~subscription.filter.present
    \/ message.kind = "text"
    \/ message.kind = "object" /\ PayloadSatisfies(subscription.filter, message)

\* C22: fan-out without early exit: for one inbound message every subscription is
\* looked at, and every matching subscription that is not paused receives the
\* message iff its own filter lets the payload through, whatever happens for the
\* other matching subscriptions (paused, filtered out, or failing on the payload).
C22_FanOutIsIndependent ==
    [][Routes =>
          /\ DOMAIN routed'.events = DOMAIN subscriptions
          /\ \A p \in DOMAIN subscriptions :
                IF p \in Matching(routed'.topic)
                THEN /\ subscriptions[p].paused => routed'.events[p] = "paused"
                     /\ ~subscriptions[p].paused =>
                           (routed'.events[p] = "received"
                               <=> Passes(subscriptions[p], routed'.message))
                ELSE routed'.events[p] = "nomatch"]_vars

\* one message: dropped for a paused subscription, failing for a filtered one,
\* received by the third
C22_Witness ==
    \E p, q, r \in DOMAIN routed.events :
        /\ routed.events[p] = "paused"
        /\ routed.events[q] = "error"
        /\ routed.events[r] = "received"

\* C23: a successful subscribe of a pattern that is already in the registry keeps
\* the key and replaces the entry: delivery level and filter are those of the new
\* call (no filter removes the old one) and paused is false again, so that matching
\* messages, which were dropped while the subscription was paused, are received.
C23_ResubscribeOverwrites ==
    /\ [][\A c \in 1..Len(calls) : \A k \in calls[c].unacked :
             (calls[c].topics[k] \in DOMAIN subscriptions /\ SubscribeAck(c, k, FALSE)) =>
                LET p == calls[c].topics[k] IN
                /\ DOMAIN subscriptions' = DOMAIN subscriptions
                /\ subscriptions'[p].topic = p
                /\ subscriptions'[p].qos = calls[c].qos
                /\ subscriptions'[p].filter = calls[c].filter
                /\ ~subscriptions'[p].paused]_vars
    /\ [][Routes =>
             \A p \in Matching(routed'.topic) :
                 /\ subscriptions[p].paused => routed'.events[p] = "paused"
                 /\ ~subscriptions[p].paused =>
                       (routed'.events[p] = "received"
                           <=> Passes(subscriptions[p], routed'.message))]_vars

\* the last routed message was dropped because the subscription was paused; since
\* then a subscribe without filter at another delivery level has been acknowledged
C23_Witness ==
    /\ TempPattern \in DOMAIN routed.events /\ routed.events[TempPattern] = "paused"
    /\ toolResult.action = "subscribe" /\ toolResult.success
    /\ TempPattern \in DOMAIN subscriptions /\ ~subscriptions[TempPattern].paused
    /\ subscriptions[TempPattern].filter = NoFilter
    /\ subscriptions[TempPattern].qos = 2

\* C24: a successful unsubscribe of a subscribed pattern destroys its entry: the
\* pattern is no longer listed, the reported remaining count is one less than the
\* count before, every other entry is unchanged; messages are routed only on behalf
\* of entries in the registry, and the pattern comes back only through a
\* successfully acknowledged subscribe of it.
C24_UnsubscribeDestroys ==
    /\ [][\A p \in DOMAIN subscriptions :
             Unsubscribe(p, FALSE) =>
                /\ ~ \E e \in ListSubscriptions' : e.topic = p
                /\ toolResult'.success
                /\ toolResult'.count = Cardinality(ListSubscriptions) - 1
                /\ \A q \in DOMAIN subscriptions \ {p} :
                       q \in DOMAIN subscriptions' /\ subscriptions'[q] = subscriptions[q]]_vars
    /\ [][Routes => DOMAIN routed'.events = DOMAIN subscriptions]_vars
    /\ [][\A p \in DOMAIN subscriptions' \ DOMAIN subscriptions :
             \E c \in 1..Len(calls) : \E k \in calls[c].unacked :
                 calls[c].topics[k] = p /\ SubscribeAck(c, k, FALSE)]_vars

\* after the unsubscribe of one of two patterns a message on a topic both match has
\* been routed for the remaining one alone
C24_Witness ==
    /\ toolResult.action = "unsubscribe" /\ toolResult.success /\ toolResult.count = 1
    /\ toolResult.topic \notin DOMAIN subscriptions
    /\ topicMatches(routed.topic, toolResult.topic)
    /\ DOMAIN routed.events = DOMAIN subscriptions
    /\ \E q \in DOMAIN routed.events : routed.events[q] = "received"

\* C30: a call of any action while the client is absent or not connected returns
\* success = false with status 'MQTT client not connected' (the promise resolves),
\* issues no transport call and leaves the registry and the handler as they were.
C30_NotConnectedIsRefused ==
    [][\A action \in ToolActions, client \in {"absent", "disconnected"},
          topic \in RouterPatterns, err \in BOOLEAN :
          Execute(action, client, topic, err) =>
              /\ ~toolResult'.success
              /\ toolResult'.status = "MQTT client not connected"
              /\ toolResult'.promise = "resolved"
              /\ UNCHANGED <<subscriptions, calls, listeners>>]_vars

\* a pause refused for lack of a connection: the entry is still stored unpaused,
\* and the subscribe call issued while connected is still pending
C30_Witness ==
    /\ toolResult = Result("pause", TempPattern, FALSE, "MQTT client not connected")
    /\ TempPattern \in DOMAIN subscriptions
    /\ ~subscriptions[TempPattern].paused
    /\ Len(calls) > 0

(***************************************************************************)
(* Matcher claims                                                          *)
(***************************************************************************)
\* the subscriptions the last routed message was delivered to
Delivered(p) == routed.events[p] = "received"

NoHash(p) == \A i \in 1..Len(p) : p[i] # "#"

\* same number of segments, each pattern segment '+' or the topic's segment
SegmentwiseEqual(topic, p) ==
    /\ Len(topic) = Len(p)
    /\ \A i \in 1..Len(p) : p[i] = "+" \/ p[i] = topic[i]

\* '#' appears, if at all, only once and as the last segment
HashOnlyLast(p) == \A i \in 1..Len(p) : p[i] = "#" => i = Len(p)

\* C17: for a pattern without '#', topicMatches is true iff pattern and topic have
\* the same number of segments and every pattern segment is '+' or equal, with case
\* and with empty segments taken literally, to the topic segment at its position.
C17_PlusMatchesOneLevel ==
    \A p \in DOMAIN routed.events :
        NoHash(p) => (Delivered(p) <=> SegmentwiseEqual(routed.topic, p))

\* sensors/+/temp does not match sensors/42/sub/temp
C17_Witness ==
    /\ routed.topic = <<"sensors", "42", "sub", "temp">>
    /\ <<"sensors", "+", "temp">> \in DOMAIN routed.events
    /\ ~Delivered(<<"sensors", "+", "temp">>)

\* literal segments followed by one final '#'
LiteralsThenHash(p) ==
    /\ p[Len(p)] = "#"
    /\ \A i \in 1..(Len(p) - 1) : p[i] \notin {"+", "#"}

\* the topic starts with the pattern's literal segments
HasPrefix(topic, p) ==
    /\ Len(topic) >= Len(p) - 1
    /\ \A i \in 1..(Len(p) - 1) : topic[i] = p[i]

\* C18: for a pattern of literal segments followed by a final '#', topicMatches is
\* true exactly for the topics that start with the literal segments, whatever
\* follows, nothing included: sensors/# matches sensors, sensors/a and
\* sensors/a/b/c, and no topic with another prefix.
C18_HashMatchesRemainder ==
    \A p \in DOMAIN routed.events :
        LiteralsThenHash(p) => (Delivered(p) <=> HasPrefix(routed.topic, p))

\* sensors/# matches sensors
C18_Witness ==
    /\ routed.topic = <<"sensors">>
    /\ <<"sensors", "#">> \in DOMAIN routed.events
    /\ Delivered(<<"sensors", "#">>)

\* C21: a '+' segment stands for exactly one topic segment, which must exist: when
\* a well-formed pattern with '+' at position i matches, the topic has a segment at
\* position i (so a/+/# does not match the topic a).
C21_PlusNeedsASegment ==
    \A p \in DOMAIN routed.events :
        (HashOnlyLast(p) /\ Delivered(p)) =>
            \A i \in 1..Len(p) : p[i] = "+" => i <= Len(routed.topic)

(***************************************************************************)
(* Registry claims                                                         *)
(***************************************************************************)
\* C11: a pattern in which '#' is not the final segment is rejected at subscribe
\* time: it is never stored in the registry and so never matches an inbound topic.
C11_MalformedPatternNeverStored ==
    /\ \A p \in DOMAIN subscriptions : HashOnlyLast(p)
    /\ \A p \in Matching(HumidityTopic) : HashOnlyLast(p)

\* what list_subscriptions reports: `${subs.length} active subscription(s)`
ListedCount == Cardinality(ListSubscriptions)

\* a step in which a tool call settles with a count in its details
ReportsCount == toolResult' # toolResult /\ toolResult'.details

\* C12: the registry holds one entry per exact pattern: every reported count is the
\* number of distinct patterns subscribed at that moment, a successful subscribe of
\* a pattern already present replaces its filter and delivery level (and clears the
\* paused flag) without changing the count, a successful subscribe of a new pattern
\* adds one, a successful unsubscribe removes exactly that pattern, and pause and
\* resume leave the count alone.
C12_OneEntryPerPattern ==
    /\ [](ListedCount = Cardinality({e.topic : e \in ListSubscriptions}))
    /\ [][ReportsCount => toolResult'.count = ListedCount']_vars
    /\ [][\A c \in 1..Len(calls) : \A k \in calls[c].unacked :
             SubscribeAck(c, k, FALSE) =>
                LET p == calls[c].topics[k] IN
                /\ ListedCount' = IF p \in DOMAIN subscriptions
                                  THEN ListedCount ELSE ListedCount + 1
                /\ subscriptions'[p] = [topic |-> p, qos |-> calls[c].qos,
                                        filter |-> calls[c].filter, paused |-> FALSE]
                /\ \A q \in DOMAIN subscriptions \ {p} :
                       subscriptions'[q] = subscriptions[q]]_vars
    /\ [][\A p \in RegistryPatterns :
             /\ Unsubscribe(p, FALSE) =>
                   /\ DOMAIN subscriptions' = DOMAIN subscriptions \ {p}
                   /\ ListedCount' = IF p \in DOMAIN subscriptions
                                     THEN ListedCount - 1 ELSE ListedCount
             /\ (Pause(p) \/ Resume(p)) => ListedCount' = ListedCount]_vars

\* one call naming the same pattern twice, both acknowledged: one entry
C12_Witness ==
    /\ toolResult.action = "subscribe"
    /\ toolResult.subscribed = <<TempPattern, TempPattern>>
    /\ toolResult.count = 1
    /\ subscriptions[TempPattern].filter = LabFilter

\* C13: unsubscribe of a pattern that is not in the registry returns a not-found
\* error, not success, and leaves the registry unchanged.
C13_UnsubscribeUnknownIsNotFound ==
    [][\A p \in RegistryPatterns, err \in BOOLEAN :
          (p \notin DOMAIN subscriptions /\ Unsubscribe(p, err)) =>
              /\ ~toolResult'.success
              /\ err \/ toolResult'.status = "Subscription not found"
              /\ subscriptions' = subscriptions]_vars

\* C14: pause and resume of a pattern that is not in the registry return
\* 'Subscription not found' and change nothing; on a known pattern they succeed and
\* set only that entry's paused flag, keep every entry, filter and delivery level,
\* and repeating the operation changes nothing.
C14_PauseResumeContract ==
    [][\A p \in RegistryPatterns, flag \in BOOLEAN :
          SetPaused(p, flag) =>
              /\ toolResult'.action = IF flag THEN "pause" ELSE "resume"
              /\ toolResult'.promise = "resolved"
              /\ p \notin DOMAIN subscriptions =>
                    /\ ~toolResult'.success
                    /\ toolResult'.status = "Subscription not found"
                    /\ subscriptions' = subscriptions
              /\ p \in DOMAIN subscriptions =>
                    /\ toolResult'.success
                    /\ DOMAIN subscriptions' = DOMAIN subscriptions
                    /\ subscriptions'[p].paused = flag
                    /\ subscriptions'[p].filter = subscriptions[p].filter
                    /\ subscriptions'[p].qos = subscriptions[p].qos
                    /\ subscriptions'[p].topic = subscriptions[p].topic
                    /\ \A q \in DOMAIN subscriptions \ {p} :
                           subscriptions'[q] = subscriptions[q]
                    /\ subscriptions[p].paused = flag => subscriptions' = subscriptions]_vars

\* a filtered subscription has been paused while another pattern is unknown
C14_Witness ==
    /\ toolResult.action = "pause" /\ toolResult.success
    /\ toolResult.topic \in DOMAIN subscriptions
    /\ subscriptions[toolResult.topic].paused
    /\ subscriptions[toolResult.topic].filter = LabFilter
    /\ DOMAIN subscriptions # RegistryPatterns

\* C15: over any sequence of subscribe calls (one or several topics, overlapping
\* calls, acknowledgments succeeding or failing) handleMessage is attached to the
\* client's message event at most once, it is attached as soon as one subscribe call
\* has resolved, and it is never detached, so an inbound message is routed once.
C15_HandlerAttachedOnce ==
    /\ [](listeners \in {0, 1})
    /\ [][Len(calls') < Len(calls) => listeners' = 1]_vars
    /\ [][listeners = 1 => listeners' = 1]_vars
    /\ [][Routes => listeners = 1]_vars

\* a message is routed while a second call, issued before the first resolved with a
\* failed acknowledgment, is still pending
C15_Witness ==
    /\ listeners = 1
    /\ Len(calls) > 0 /\ calls[1].remaining < Len(calls[1].topics)
    /\ Len(toolResult.failed) > 0
    /\ routed # NoRoute

\* C16: a failed acknowledgment is returned as a value (the promise resolves, it is
\* never rejected) and leaves the registry as it was: a failed subscribe stores
\* nothing and overwrites nothing, a failed unsubscribe keeps the entry; a call for
\* several topics reports exactly the successfully acknowledged topics as subscribed
\* and the others as failed, and only acknowledged topics enter the registry.
C16_TransportFailureIsAValue ==
    /\ [](toolResult.promise = "resolved")
    /\ [][\A c \in 1..Len(calls) : \A k \in calls[c].unacked :
             SubscribeAck(c, k, TRUE) => subscriptions' = subscriptions]_vars
    /\ [][\A c \in 1..Len(calls) : \A k \in calls[c].unacked :
             SubscribeAck(c, k, FALSE) =>
                DOMAIN subscriptions' = DOMAIN subscriptions \cup {calls[c].topics[k]}]_vars
    /\ [][\A p \in RegistryPatterns :
             Unsubscribe(p, TRUE) =>
                /\ subscriptions' = subscriptions
                /\ ~toolResult'.success
                /\ toolResult'.status = "Failed to unsubscribe"]_vars
    /\ [][\A c \in 1..Len(calls) : \A k \in calls[c].unacked, err \in BOOLEAN :
             SubscribeAck(c, k, err) =>
                LET p == calls[c].topics[k]
                    ok == IF err THEN calls[c].subscribed ELSE Append(calls[c].subscribed, p)
                    ko == IF err THEN Append(calls[c].failed, p) ELSE calls[c].failed
                IN IF calls[c].remaining = 1
                   THEN /\ toolResult'.action = "subscribe"
                        /\ toolResult'.subscribed = ok
                        /\ toolResult'.failed = ko
                        /\ Len(ok) + Len(ko) = Len(calls[c].topics)
                        /\ toolResult'.success <=> Len(ok) > 0
                   ELSE /\ calls'[c].subscribed = ok
                        /\ calls'[c].failed = ko
                        /\ toolResult' = toolResult]_vars

\* a two-topic call, one topic acknowledged and one failed, over an entry that a
\* failed acknowledgment left in place
C16_Witness ==
    /\ toolResult.action = "subscribe"
    /\ toolResult.subscribed = <<MidHashPattern>>
    /\ toolResult.failed = <<TempPattern>>
    /\ toolResult.success
    /\ DOMAIN subscriptions = RegistryPatterns
    /\ subscriptions[TempPattern].filter # subscriptions[MidHashPattern].filter

\* C27 as stated: every subscribe call eventually resolves once the transport has
\* answered every requested topic, for every topic list, the empty list included:
\* a pending call is eventually no longer pending.
C27_SubscribeResolves == (Len(calls) > 0) ~> (Len(calls) = 0)

(***************************************************************************)
(* Rate limiter claims                                                     *)
(***************************************************************************)
\* the device has a stored response
HasResponded(deviceId) ==
    deviceId \in DOMAIN voiceHistory /\ Len(voiceHistory[deviceId]) > 0

\* minutes since the last stored response of the device
Elapsed(deviceId) == now - voiceHistory[deviceId][Len(voiceHistory[deviceId])].timestamp

\* C19: shouldRespond(key, severity) is true iff the key has no prior emission, or
\* severity is critical or emergency, or severity is warning and at least 15 minutes
\* have passed since the key's last emission, or severity is normal and at least 30
\* minutes have passed.
C19_LimiterDecision ==
    decision # NoDecision =>
        (decision.allowed <=>
            \/ ~HasResponded(decision.deviceId)
            \/ decision.severity \in {"critical", "emergency"}
            \/ decision.severity = "warning" /\ Elapsed(decision.deviceId) >= 15
            \/ decision.severity = "normal" /\ Elapsed(decision.deviceId) >= 30)

\* normal, last emission 29 minutes ago: refused
C19_Witness ==
    /\ decision.deviceId = "d1" /\ decision.severity = "normal"
    /\ HasResponded("d1") /\ Elapsed("d1") = 29
    /\ ~decision.allowed

\* the device's previous emission lies within the cooldown of the severity
WithinCooldown(deviceId, severity) ==
    /\ HasResponded(deviceId)
    /\ \/ severity = "normal" /\ Elapsed(deviceId) < 30
       \/ severity = "warning" /\ Elapsed(deviceId) < 15

PublishedFor(deviceId) == SelectSeq(published, LAMBDA m : m.device_id = deviceId)

\* C20: a generation that was not forced, of severity normal or warning, for a device
\* whose previous emission lies within the cooldown (30 minutes for normal, 15 for
\* warning) appends nothing to the device's history and publishes nothing.
C20_CooldownSuppresses ==
    [][\A deviceId \in DOMAIN generations :
          (/\ ~generations[deviceId].forceResponse
           /\ WithinCooldown(deviceId, generations[deviceId].severity)) =>
              /\ voiceHistory'[deviceId] = voiceHistory[deviceId]
              /\ PublishedFor(deviceId)' = PublishedFor(deviceId)]_vars

\* a step that evaluates shouldRespond
Decides == \E deviceId \in Devices, severity \in HistorySeverities : Decide(deviceId, severity)

\* a step in which generateVoiceResponse stores the response it produced
Records == \E deviceId \in Devices, connected \in BOOLEAN : TTSSettles(deviceId, connected)

\* a step of clear_history
Clears == \E deviceId \in {"d1", NoDevice} : clearVoiceHistory(deviceId)

CanStart(deviceId) ==
    \E conditions \in LockConditions :
        ENABLED (GenerateStart(deviceId, conditions, FALSE)
                   /\ deviceId \in DOMAIN generations')

\* C28: the lock of a device is held exactly while a generation for it is in flight,
\* so at most one is; a request for a device whose generation is in flight returns
\* the failure at once and changes neither the generation in flight, the history nor
\* what was published; a request for a device with no generation in flight starts
\* one whatever the other devices are doing; and every exit of a generation, by
\* return or by exception, removes the lock together with the generation.
C28_OneGenerationPerDevice ==
    /\ [](generationLocks = DOMAIN generations)
    /\ [][\A deviceId \in Devices, conditions \in LockConditions :
             (GenerateStart(deviceId, conditions, FALSE)
                 /\ deviceId \in DOMAIN generations) =>
                 /\ voiceResult' = VoiceResult(deviceId, FALSE, "in progress", FALSE)
                 /\ UNCHANGED <<generations, generationLocks, voiceHistory, published>>]_vars
    /\ [](\A deviceId \in Devices :
             (deviceId \notin DOMAIN generations /\ Started < MaxGenerations) =>
                 CanStart(deviceId))
    /\ [][\A deviceId \in Devices :
             (deviceId \in DOMAIN generations /\ deviceId \notin DOMAIN generations') =>
                 deviceId \notin generationLocks']_vars

\* a generation for d1 ended with an exception, a later request for d1 started the
\* generation now in flight, and a generation for d2 is in flight beside it
C28_Witness ==
    /\ voiceResult = VoiceResult("d1", FALSE, "operation failed", FALSE)
    /\ DOMAIN generations = {"d1", "d2"}
    /\ generationLocks = {"d1", "d2"}

(***************************************************************************)
(* Coordinator claims                                                      *)
(***************************************************************************)
ExecIds == 1..Len(executions)

UnitsOf(taskName) == {i \in ExecIds : executions[i].taskName = taskName}

\* execution units of a job whose callback has not reached its finally block
PendingUnits(taskName) == {i \in UnitsOf(taskName) : executions[i].pc # "finished"}

\* job bodies (workflow.execute promises) of a job that have started and not settled
BodiesInFlight(taskName) == {i \in UnitsOf(taskName) : executions[i].body = "running"}

\* C1 as stated: at most one job body per job name is in flight in every reachable
\* state, whatever the interleaving of ticks, completions, exceptions and timeouts.
C1_OneBodyInFlight ==
    \A taskName \in TaskNameSet : Cardinality(BodiesInFlight(taskName)) <= 1

\* C1 amended: at most one execution unit per job name is pending (holds the running
\* mark); every other body of that job still in flight belongs to a unit that ended
\* with a timeout, which released the mark without cancelling the body.
C1_OnePendingUnit ==
    \A taskName \in TaskNameSet :
        /\ Cardinality(PendingUnits(taskName)) <= 1
        /\ \A i \in BodiesInFlight(taskName) :
              executions[i].pc = "finished" => executions[i].outcome = "timeout"
        /\ PendingUnits(taskName) # {} => taskName \in runningTasks

C1_Witness ==
    \E i, k \in ExecIds :
        /\ i < k
        /\ executions[i].taskName = executions[k].taskName
        /\ executions[i].outcome = "timeout" /\ executions[i].body = "running"
        /\ executions[k].pc = "awaiting" /\ executions[k].body = "running"

\* C2: whenever a job is marked running its mark is eventually cleared, and every
\* execution unit started by a tick eventually reaches its finally block, also when
\* the job body never settles (only the timers are fair, not the body).
C2_MarkEventuallyCleared ==
    /\ \A taskName \in TaskNameSet :
          (taskName \in runningTasks) ~> (taskName \notin runningTasks)
    /\ \A i \in 1..MaxExecs :
          (i <= Len(executions)) ~> (i <= Len(executions) /\ executions[i].pc = "finished")

C2_Witness ==
    \E i \in ExecIds :
        /\ executions[i].outcome = "timeout"
        /\ executions[i].body = "running"
        /\ executions[i].taskName \notin runningTasks

\* C3: a step in which the timeout ends unit i records a timeout outcome, leaves the
\* body running (not cancelled) and clears the job's mark; and a tick for a job that
\* is not marked running starts a fresh execution unit instead of being skipped.
C3_TimeoutFreesJob ==
    /\ [][\A i \in 1..MaxExecs : TimeoutFires(i) =>
             /\ executions'[i].outcome = "timeout"
             /\ executions'[i].pc = "finished"
             /\ executions'[i].body = "running"
             /\ executions[i].taskName \notin runningTasks']_vars
    /\ [][\A taskName \in TaskNameSet :
             (ScheduledTick(taskName) /\ PendingUnits(taskName) = {}) =>
                 /\ lastTick'.result = "started"
                 /\ Len(executions') = Len(executions) + 1
                 /\ executions'[Len(executions')].taskName = taskName]_vars

C3_Witness ==
    \E i, k \in ExecIds :
        /\ i < k
        /\ executions[i].taskName = executions[k].taskName
        /\ executions[i].outcome = "timeout" /\ executions[i].body = "running"
        /\ lastTick = [taskName |-> executions[k].taskName, result |-> "started"]

\* C4: a tick for a job that is marked running is a no-op (no unit is created, the
\* running set is unchanged, only "skipping" is logged); nothing is queued: a body
\* starts only from the deferred unit a non-skipped tick created, and a unit is
\* created only by a tick that found the job unmarked.
C4_SkippedTickIsNoOp ==
    /\ [][\A taskName \in TaskNameSet :
             (ScheduledTick(taskName) /\ taskName \in runningTasks) =>
                 /\ lastTick' = [taskName |-> taskName, result |-> "skipped"]
                 /\ executions' = executions
                 /\ runningTasks' = runningTasks]_vars
    /\ [][\A taskName \in TaskNameSet :
             (BodiesInFlight(taskName)' \ BodiesInFlight(taskName)) \subseteq
                 {i \in UnitsOf(taskName) : executions[i].pc = "deferred"}]_vars
    /\ [][Len(executions') > Len(executions) =>
             /\ Len(executions') = Len(executions) + 1
             /\ lastTick'.result = "started"
             /\ lastTick'.taskName \notin runningTasks]_vars

C4_Witness ==
    \E taskName \in TaskNameSet :
        /\ lastTick = [taskName |-> taskName, result |-> "skipped"]
        /\ taskName \in runningTasks
        /\ Cardinality(UnitsOf(taskName)) = 1
        /\ \E i \in UnitsOf(taskName) : executions[i].body = "running"

Failed(i) == executions[i].outcome \in {"error", "timeout"}

\* C5: a step in which unit i ends with an error or a timeout leaves nothing thrown
\* out of the callback, un-marks its job, and changes neither the marks of the other
\* jobs nor the registered schedules; a tick is skipped only because of its own job's
\* mark, and a tick of an unmarked job starts an execution.
C5_FailureIsIsolated ==
    /\ [][\A i \in 1..MaxExecs :
             (i <= Len(executions) /\ ~Failed(i) /\ Failed(i)') =>
                 /\ ~executions'[i].escaped
                 /\ executions[i].taskName \notin runningTasks'
                 /\ runningTasks' \ {executions[i].taskName} =
                        runningTasks \ {executions[i].taskName}
                 /\ scheduledTasks' = scheduledTasks
                 /\ isInitialized' = isInitialized]_vars
    /\ [][\A taskName \in TaskNameSet :
             ScheduledTick(taskName) =>
                 (lastTick'.result = "skipped" <=> taskName \in runningTasks)]_vars

C5_Witness ==
    \E i, k \in ExecIds :
        /\ executions[i].outcome = "error" /\ ~executions[i].escaped
        /\ executions[i].taskName \notin runningTasks
        /\ executions[k].taskName # executions[i].taskName
        /\ executions[k].taskName \in runningTasks
        /\ Len(scheduledTasks) = Len(TaskNames)

\* C6 as stated: stop() clears all bookkeeping, so when the tasks are registered again
\* by start() every job is idle.
C6_RestartIsClean ==
    [][(~isInitialized /\ isInitialized') => runningTasks' = {}]_vars

\* C6 amended: stop() unregisters every task and resets isInitialized but keeps the
\* running marks and the in-flight units; while no task is registered no tick fires;
\* a mark outlives stop() exactly as long as its unit is pending.
C6_StopKeepsRunningMarks ==
    /\ [][(isInitialized /\ ~isInitialized') =>
             /\ scheduledTasks' = <<>>
             /\ runningTasks' = runningTasks
             /\ executions' = executions]_vars
    /\ [][scheduledTasks = <<>> =>
             (lastTick' = lastTick /\ Len(executions') = Len(executions))]_vars
    /\ [](\A taskName \in TaskNameSet :
             taskName \in runningTasks <=> PendingUnits(taskName) # {})

C6_Witness ==
    /\ scheduledTasks = <<>>
    /\ ~isInitialized
    /\ \E taskName \in runningTasks :
          \E i \in UnitsOf(taskName) : executions[i].body = "running"

\* C7: a non-skipped tick marks the job and only creates the deferred unit (no part
\* of the body has run when the handler returns); a unit that is still deferred has
\* its job marked, so a second tick before the deferred step starts no second unit.
C7_TickOnlyDefers ==
    /\ [][\A taskName \in TaskNameSet :
             (ScheduledTick(taskName) /\ taskName \notin runningTasks) =>
                 /\ taskName \in runningTasks'
                 /\ executions' = Append(executions, NewExecution(taskName))]_vars
    /\ [](\A i \in ExecIds :
             executions[i].pc = "deferred" =>
                 /\ executions[i].body = "none"
                 /\ executions[i].taskName \in runningTasks
                 /\ PendingUnits(executions[i].taskName) = {i})

C7_Witness ==
    \E taskName \in TaskNameSet :
        /\ lastTick = [taskName |-> taskName, result |-> "skipped"]
        /\ Cardinality(UnitsOf(taskName)) = 1
        /\ \E i \in UnitsOf(taskName) : executions[i].pc = "deferred"

\* the unit that set the job's mark: the one the latest non-skipped tick created
MarkOwner(taskName) == CHOOSE i \in UnitsOf(taskName) : \A k \in UnitsOf(taskName) : k <= i

\* C26: the late result of a body whose unit already ended (by timeout) is discarded:
\* the step in which it settles changes no running mark and no unit's position or
\* outcome; a finished unit never gets a second outcome; and a job's mark is removed
\* only in the step in which the unit that set it reaches its finally block.
C26_LateResultDiscarded ==
    /\ [][\A i \in 1..MaxExecs, how \in {"resolved", "rejected"} :
             (WorkflowSettles(i, how) /\ executions[i].pc = "finished") =>
                 /\ runningTasks' = runningTasks
                 /\ \A k \in ExecIds :
                       /\ executions'[k].pc = executions[k].pc
                       /\ executions'[k].outcome = executions[k].outcome]_vars
    /\ [][\A i \in ExecIds :
             executions[i].pc = "finished" =>
                 /\ executions'[i].pc = "finished"
                 /\ executions'[i].outcome = executions[i].outcome]_vars
    /\ [][\A taskName \in TaskNameSet :
             (taskName \in runningTasks /\ taskName \notin runningTasks') =>
                 /\ UnitsOf(taskName) # {}
                 /\ executions[MarkOwner(taskName)].pc # "finished"
                 /\ executions'[MarkOwner(taskName)].pc = "finished"]_vars

\* the body of a timed-out unit has settled late while a newer unit of the same job
\* still holds the mark
C26_Witness ==
    \E i, k \in ExecIds :
        /\ i < k
        /\ executions[i].taskName = executions[k].taskName
        /\ executions[i].outcome = "timeout"
        /\ executions[i].body \in {"resolved", "rejected"}
        /\ executions[k].pc # "finished"
        /\ executions[k].taskName \in runningTasks

\* C29: after any sequence of initialize and stop calls the registered tasks are none
\* or exactly the four jobs, each once; isInitialized is true exactly when tasks are
\* registered; initialize while initialized registers nothing more, and initialize
\* with scheduling disabled registers nothing.
C29_RegisteredNoneOrFour ==
    /\ [](scheduledTasks = <<>> \/ scheduledTasks = TaskNames)
    /\ [](Len(scheduledTasks) \in {0, 4} /\ Cardinality(TaskNameSet) = 4)
    /\ [](isInitialized <=> Len(scheduledTasks) > 0)
    /\ [][(initializeScheduledMonitoring(TRUE) /\ isInitialized) =>
             UNCHANGED <<scheduledTasks, isInitialized>>]_vars
    /\ [][initializeScheduledMonitoring(FALSE) =>
             UNCHANGED <<scheduledTasks, isInitialized>>]_vars
    /\ [][stopScheduledMonitoring => (scheduledTasks' = <<>> /\ ~isInitialized')]_vars

\* initialize has registered the four jobs and they are ticking: one unit has
\* finished and a tick of a registered job was skipped behind a newer unit
C29_Witness ==
    /\ isInitialized
    /\ Len(scheduledTasks) = 4
    /\ \A taskName \in TaskNameSet : Registered(taskName)
    /\ lastTick.result = "skipped"
    /\ \E i, k \in ExecIds : i < k /\ executions[i].pc = "finished"
                                /\ executions[k].taskName = lastTick.taskName

====
